---- MODULE Spec2Model ----
(***************************************************************************)
(* A model of bandmap: the RBN spot feed reader (getrbn), the spot table   *)
(* spots.db (DataBase.add_spot, getspots, prune_oldest_spot,               *)
(* setup_spots_db), the display loop (showspots), the VFO poll (getvfo)    *)
(* and the start-up code (run).                                            *)
(*                                                                         *)
(* Units.  A feed frequency is printed in kHz with one decimal; the model  *)
(* keeps it as an integer number of tenths of a kHz (7030.0 kHz is 70300). *)
(* THE_VFO is float(Hz)/1000; the model keeps it in Hz.  The clock `now`   *)
(* counts whole seconds, the resolution of SQLite's datetime('now').       *)
(***************************************************************************)
EXTENDS Integers, Sequences, FiniteSets, Bags, TLC

VARIABLES
    now,            \* wall clock, seconds: datetime('now')
    spots,          \* table spots of spots.db, a bag of rows
    lock,           \* holder of threading.Lock(): "free", "getrbn", "showspots"
    run_pc,         \* position of run()
    localspotters,  \* the spotters within MAX_SPOTTER_DISTANCE
    SHOW_OUT_OF_BAND, \* not args.general
    LIMIT_BANDS,    \* the band allow-list
    console_height, \* console.height, the terminal's height in lines
    rbn_pc,         \* position of thread getrbn
    stream,         \* getrbn: the chunk read from the telnet connection
    spot,           \* getrbn: (callsign, freq, band) handed to add_spot
    tn_sent,        \* getrbn: what tn_connection.write() has sent since
                    \* read_until() last returned
    show_pc,        \* position of thread showspots
    result,         \* showspots: the rows getspots() returned
    idx,            \* showspots: number of rows of result already iterated
    displayed,      \* showspots: the counter `displayed`
    rows,           \* showspots: the rows printed since console.clear()
    pruned,         \* showspots: calls of prune_oldest_spot made in this pass
    style,          \* showspots: the variable `style` of the row being printed
    CONTACTLIST,    \* band -> callsigns already worked, as a set of pairs
    vfo_pc,         \* position of thread getvfo
    THE_VFO,        \* the rig's frequency, Hz
    inserted,       \* history, kept in the runs of SpecBound only: the rows
                    \* add_spot has inserted since showspots last listed
                    \* the table
    call,           \* a pure function applied on its own: its name and argument
    ret             \* and what it returned

cfg_vars == << localspotters, SHOW_OUT_OF_BAND, LIMIT_BANDS, console_height >>
rbn_vars == << rbn_pc, stream, spot, tn_sent >>
show_vars == << show_pc, result, idx, displayed, rows, pruned, style,
               CONTACTLIST >>
vfo_vars == << vfo_pc, THE_VFO >>
pure_vars == << call, ret, inserted >>

vars == << now, spots, lock, run_pc, cfg_vars, rbn_vars, show_vars, vfo_vars,
           pure_vars >>

-----------------------------------------------------------------------------
(* Bounds of the model *)

\* The clock stops advancing at MaxTime.
MaxTime == 2

\* The longest grid code handed to gridtolatlon.
MaxGrid == 10

(* Configuration *)

\* args.age (seconds); 600 by default.  Any positive integer is a legal
\* value; 1 lets a row expire within MaxTime.
SPOT_TO_OLD == 1

MAX_SPOTTER_DISTANCE == 500

\* args.call; "w1aw" by default.
MY_CALL == "w1aw"

\* float(parsed[0][1]) raises ValueError on this frequency field ("" or
\* "7.0.3", both of which RBN_PARSER's group [\d.]* matches).
BadFreq == -1

-----------------------------------------------------------------------------
(* FrequencyClassifier *)

\* getband(freq): freq in tenths of a kHz.  int(float(freq)) truncates to
\* whole kHz, then * 1000 gives Hz; a value float() rejects gives 0.
getband(freq) ==
    LET frequency == IF freq = BadFreq THEN 0 ELSE (freq \div 10) * 1000
    IN  IF frequency > 1800000 /\ frequency < 2000000 THEN "160"
        ELSE IF frequency > 3500000 /\ frequency < 4000000 THEN "80"
        ELSE IF frequency > 5330000 /\ frequency < 5406000 THEN "60"
        ELSE IF frequency > 7000000 /\ frequency < 7300000 THEN "40"
        ELSE IF frequency > 10100000 /\ frequency < 10150000 THEN "30"
        ELSE IF frequency > 14000000 /\ frequency < 14350000 THEN "20"
        ELSE IF frequency > 18068000 /\ frequency < 18168000 THEN "17"
        ELSE IF frequency > 21000000 /\ frequency < 21450000 THEN "15"
        ELSE IF frequency > 24890000 /\ frequency < 24990000 THEN "12"
        ELSE IF frequency > 28000000 /\ frequency < 29700000 THEN "10"
        ELSE IF frequency > 50000000 /\ frequency < 54000000 THEN "6"
        ELSE IF frequency > 144000000 /\ frequency < 148000000 THEN "2"
        ELSE "0"

\* inband(freq): freq in tenths of a kHz, the table in kHz.
inband(freq) ==
    \/ freq > 18000 /\ freq < 20000
    \/ freq > 35250 /\ freq < 36000
    \/ freq > 38000 /\ freq < 40000
    \/ freq > 70250 /\ freq < 71250
    \/ freq > 71750 /\ freq < 73000
    \/ freq > 101000 /\ freq < 101500
    \/ freq > 140250 /\ freq < 141500
    \/ freq > 142250 /\ freq < 143500
    \/ freq > 180680 /\ freq < 181680
    \/ freq > 210250 /\ freq < 212000
    \/ freq > 212750 /\ freq < 214500
    \/ freq > 248900 /\ freq < 249900
    \/ freq > 280000 /\ freq < 297000
    \/ freq > 500000 /\ freq < 540000

-----------------------------------------------------------------------------
(* GeoFilter: gridtolatlon *)

\* What a call of a function gives: the value it returns or the exception
\* it raises.
Returns(value) == [kind |-> "return", value |-> value]
Raises(exception) == [kind |-> "raise", value |-> exception]

\* gridtolatlon(maiden): maiden is the text after strip() and upper(), as
\* the sequence of the code points ord() gives.  The result is (lat, lon)
\* in units of 1/240 of a degree, in which every term of the code is whole:
\* 1/24 is 10, 1/48 is 5, 5.0/600 is 2 and 2.5/600 is 1.  The guard is
\* Python's "not 8 >= n >= 2 and n % 2 == 0": "not" binds tighter than
\* "and".  maiden[1] of a text of one character raises IndexError.
gridtolatlon(maiden) ==
    LET maidenhead_resolution == Len(maiden)
        lon2 == ((maiden[1] - 65) * 20 - 180) * 240
        lat2 == ((maiden[2] - 65) * 10 - 90) * 240
        lon4 == IF maidenhead_resolution >= 4
                THEN lon2 + (maiden[3] - 48) * 2 * 240 ELSE lon2
        lat4 == IF maidenhead_resolution >= 4
                THEN lat2 + (maiden[4] - 48) * 240 ELSE lat2
        lon6 == IF maidenhead_resolution >= 6
                THEN lon4 + (maiden[5] - 65) * 20 + 10 ELSE lon4
        lat6 == IF maidenhead_resolution >= 6
                THEN lat4 + (maiden[6] - 65) * 10 + 5 ELSE lat4
        lon8 == IF maidenhead_resolution >= 8
                THEN lon6 + maiden[7] * 2 ELSE lon6
        lat8 == IF maidenhead_resolution >= 8
                THEN lat6 + maiden[8] ELSE lat6
    IN  IF ~(8 >= maidenhead_resolution /\ maidenhead_resolution >= 2)
           /\ maidenhead_resolution % 2 = 0
        THEN Returns(<< 0, 0 >>)
        ELSE IF maidenhead_resolution < 2 THEN Raises("IndexError")
        ELSE Returns(<< lat8, lon8 >>)

-----------------------------------------------------------------------------
(* SpotStore: table spots of spots.db *)

\* A row is [callsign, date_time, frequency, band].  The column id (INTEGER
\* PRIMARY KEY) gives a row its identity and nothing else: it is read only
\* to delete the row that was just selected.  The model keeps the table as
\* a bag of rows, so that two rows equal in every other column are two rows.

Row(callsign, date_time, frequency, band) ==
    [callsign |-> callsign, date_time |-> date_time,
     frequency |-> frequency, band |-> band]

\* Cast((JulianDay(datetime('now')) - JulianDay(date_time)) * 86400 As Integer)
Age(row, t) == t - row.date_time

\* The rows of tbl that are in the set keep, each as often as in tbl.
Where(tbl, keep) ==
    [r \in BagToSet(tbl) \cap keep |-> CopiesIn(r, tbl)]

\* The sweep with the threshold off by one second: a row stays until its
\* age exceeds spot_to_old + 1.
Sweep_OffByOne(tbl, t, spot_to_old) ==
    Where(tbl, {r \in BagToSet(tbl) : ~(Age(r, t) > spot_to_old + 1)})

\* "delete from spots where <age> > spot_to_old"
Sweep(tbl, t, spot_to_old) ==
    Where(tbl, {r \in BagToSet(tbl) : ~(Age(r, t) > spot_to_old)})

\* "select count(*) from spots where callsign='...'"
CountCallsign(tbl, callsign) ==
    BagCardinality(Where(tbl, {r \in BagToSet(tbl) : r.callsign = callsign}))

\* add_spot without the "select count(*)" test: every call inserts.
add_spot_AlwaysInserts(tbl, callsign, freq, band, spot_to_old, t) ==
    Sweep(tbl, t, spot_to_old) (+) SetToBag({Row(callsign, t, freq, band)})

\* add_spot whose update statement leaves the column band alone.
add_spot_KeepsBand(tbl, callsign, freq, band, spot_to_old, t) ==
    LET swept == Sweep(tbl, t, spot_to_old)
        old == {r \in BagToSet(swept) : r.callsign = callsign}
    IN  IF old = {}
        THEN swept (+) SetToBag({Row(callsign, t, freq, band)})
        ELSE Where(swept, BagToSet(swept) \ old)
             (+) SetToBag({Row(callsign, t, freq, r.band) : r \in old})

\* DataBase.add_spot: the table after the call made at time t.
add_spot(tbl, callsign, freq, band, spot_to_old, t) ==
    LET swept == Sweep(tbl, t, spot_to_old)
        count == CountCallsign(swept, callsign)
        others == {r \in BagToSet(swept) : r.callsign # callsign}
        new == Row(callsign, t, freq, band)
    IN  IF count = 0
        THEN swept (+) SetToBag({new})
        ELSE Where(swept, others) (+) [r \in {new} |-> count]

\* DataBase.setup_spots_db: CREATE TABLE IF NOT EXISTS, then the same sweep.
setup_spots_db(tbl, spot_to_old, t) == Sweep(tbl, t, spot_to_old)

\* DataBase.getspots: "select ... from spots order by frequency asc".  Rows
\* of equal frequency come in an order SQL leaves open: every listing of
\* the rows that ascends by frequency is a possible result.
RECURSIVE getspots(_)
getspots(tbl) ==
    IF tbl = EmptyBag THEN { << >> }
    ELSE UNION { { << r >> \o l : l \in getspots(tbl (-) SetToBag({r})) } :
                   r \in {x \in BagToSet(tbl) :
                            \A y \in BagToSet(tbl) :
                               x.frequency <= y.frequency} }

\* The row picked by frequency instead of by date_time: the last row of the
\* listing, the one that did not fit on the screen.
OldestRows_ByFrequency(tbl) ==
    {r \in BagToSet(tbl) : \A q \in BagToSet(tbl) : r.frequency >= q.frequency}

\* DataBase.prune_oldest_spot: "select * from spots order by date_time asc",
\* fetchone().  The rows that fetchone() can return: those of the smallest
\* date_time (none when the table is empty, and unpacking None raises).
OldestRows(tbl) ==
    {r \in BagToSet(tbl) : \A q \in BagToSet(tbl) : r.date_time <= q.date_time}

\* "delete from spots where id='{spot_index}'"
prune_oldest_spot(tbl, row) == tbl (-) SetToBag({row})

-----------------------------------------------------------------------------
(* Highlight classification *)

\* comparevfo(freq): |THE_VFO - freq| in kHz; here in Hz, freq being tenths
\* of a kHz and vfo Hz.
comparevfo(freq, vfo) ==
    IF vfo < freq * 100 THEN freq * 100 - vfo ELSE vfo - freq * 100

\* alreadyworked(callsign, band)
alreadyworked(callsign, band, contactlist) ==
    << band, callsign >> \in contactlist

\* One of the tests "if comparevfo(frequency) < limit: style = ..." of
\* showspots: the style after the test, old being the style before it and
\* vfo the value of THE_VFO when comparevfo reads it (limit in Hz).
style_test(old, frequency, vfo, limit, new) ==
    IF comparevfo(frequency, vfo) < limit THEN new ELSE old

\* "if alreadyworked(callsign, band): style = 'bold on color(88)'"
style_worked(old, callsign, band, contactlist) ==
    IF alreadyworked(callsign, band, contactlist)
    THEN "bold on color(88)" ELSE old

-----------------------------------------------------------------------------
(* The feed *)

\* What tn_connection.read_until(b"\r\n", timeout=1.0) can return: nothing
\* (b""), or one line.  Of a line the model keeps whether it holds the text
\* "Please enter your call:", whether RBN_PARSER matches it, and the
\* matched groups spotter, frequency, callsign and mode.
Chunk(kind, challenge, spotter, freq, callsign, mode) ==
    [kind |-> kind, challenge |-> challenge, spotter |-> spotter,
     freq |-> freq, callsign |-> callsign, mode |-> mode]

NoChunk == Chunk("none", FALSE, "", 0, "", "")
EmptyChunk == Chunk("empty", FALSE, "", 0, "", "")
NoMatchChunk == Chunk("nomatch", FALSE, "", 0, "", "")
ChallengeChunk == Chunk("nomatch", TRUE, "", 0, "", "")
SpotChunk(spotter, freq, callsign, mode) ==
    Chunk("spot", FALSE, spotter, freq, callsign, mode)

Callsigns == {"N0CALL", "W1AW", "K6GTE"}
Spotters == {"S1", "S2"}
Modes == {"CW", "RTTY"}

\* 7030.0 kHz (band 40, general), 14010.0 kHz (band 20, outside the
\* general portion), 14025.0 kHz (band 20, the lower edge of the general
\* portion), 1810.0 kHz (band 160, not in the default band list).
Freqs == {70300, 140100, 140250, 18100, BadFreq}

\* Every line of the bounded feed.
AllChunks ==
    {EmptyChunk, NoMatchChunk, ChallengeChunk}
    \cup {Chunk("spot", ch, s, f, c, m) :
            ch \in BOOLEAN, s \in Spotters, f \in Freqs,
            c \in Callsigns, m \in Modes}

\* The feed of the runs that exercise the table: three stations heard by
\* S1, one of them on two bands, the login prompt and a line that is
\* discarded.
Heard ==
    { << "N0CALL", 70300 >>, << "N0CALL", 140100 >>,
      << "W1AW", 70300 >>, << "K6GTE", 140100 >> }

StoreChunks ==
    {ChallengeChunk, SpotChunk("S1", 18100, "N0CALL", "CW")}
    \cup {SpotChunk("S1", h[2], h[1], "CW") : h \in Heard}

\* The feed of the runs of the whole program: two of the stations, the
\* login prompt, an empty read and a line whose frequency is not a number.
FewChunks ==
    {EmptyChunk, ChallengeChunk, SpotChunk("S1", BadFreq, "N0CALL", "CW")}
    \cup {SpotChunk("S1", h[2], h[1], "CW") :
            h \in {x \in Heard : x[1] # "K6GTE"}}

DefaultBands == {"80", "40", "20", "15", "10", "6"}

\* tuple(str(args.bands).split()) for "-b 40 20": the pieces of the text
\* "['40', '20']", none of which is a band label.
ArgsBands == {"['40',", "'20']"}

\* The status page: the spotters on line and calc_distance(grid, MY_GRID)
\* / 1.609 for each, in miles.
StatusPages ==
    { {}, {[spotter |-> "S1", miles |-> 100], [spotter |-> "S2", miles |-> 500]} }

\* database.get_contacts(): the CW contacts of the log, as (band, callsign).
ContactLogs == { {}, {<< "40", "N0CALL" >>} }

\* server.rig.get_vfo(): a number of Hz, a text float() rejects, a value of
\* a type float() rejects, or a failed call.
RigReplies ==
    {[kind |-> "value", hz |-> 7030000], [kind |-> "value", hz |-> 7030600],
     [kind |-> "ValueError", hz |-> 0], [kind |-> "TypeError", hz |-> 0],
     [kind |-> "fault", hz |-> 0]}

-----------------------------------------------------------------------------
(* Start-up: run() *)

\* The state when run() is entered.  leftover: the tables a previous run of
\* the program can have left in spots.db.
InitWith(leftover, show_out_of_band, limit_bands, heights) ==
    /\ now = 0
    /\ spots \in leftover
    /\ lock = "free"
    /\ run_pc = "fetch"
    /\ localspotters = {}
    /\ SHOW_OUT_OF_BAND \in show_out_of_band
    /\ LIMIT_BANDS \in limit_bands
    /\ console_height \in heights
    /\ rbn_pc = "idle"
    /\ stream = NoChunk
    /\ spot = << >>
    /\ tn_sent = << >>
    /\ show_pc = "idle"
    /\ result = << >>
    /\ idx = 0
    /\ displayed = 0
    /\ rows = << >>
    /\ pruned = 0
    /\ style = ""
    /\ CONTACTLIST = {}
    /\ vfo_pc = "idle"
    /\ THE_VFO = 0
    /\ call = << >>
    /\ ret = << >>
    /\ inserted = 0

\* datetime('now') advances.
Tick ==
    /\ now < MaxTime
    /\ now' = now + 1
    /\ UNCHANGED << spots, lock, run_pc, cfg_vars, rbn_vars, show_vars,
                    vfo_vars, pure_vars >>

\* updatecontactlist(): CONTACTLIST rebuilt from database.get_contacts()
updatecontactlist(logs) == \E log \in logs : CONTACTLIST' = log

\* run(): updatecontactlist(), then requests.get() raises and the program
\* ends before any thread exists.
run_fetch_fails(logs) ==
    /\ run_pc = "fetch"
    /\ updatecontactlist(logs)
    /\ run_pc' = "aborted"
    /\ UNCHANGED << now, spots, lock, cfg_vars, rbn_vars, show_pc, result,
                    idx, displayed, rows, pruned, style, vfo_vars, pure_vars >>

\* run(): the spotters of the status page nearer than MAX_SPOTTER_DISTANCE.
NearSpotters(page) ==
    {r.spotter : r \in {q \in page : q.miles < MAX_SPOTTER_DISTANCE}}

\* run(): updatecontactlist(), the status page, the loop over its rows.
run_fetch(logs, pages) ==
    /\ run_pc = "fetch"
    /\ updatecontactlist(logs)
    /\ \E page \in pages : localspotters' = NearSpotters(page)
    /\ run_pc' = "setup"
    /\ UNCHANGED << now, spots, lock, SHOW_OUT_OF_BAND, LIMIT_BANDS,
                    console_height, rbn_vars, show_pc, result, idx,
                    displayed, rows, pruned, style, vfo_vars, pure_vars >>

\* run(): DataBase.setup_spots_db(SPOT_TO_OLD)
run_setup ==
    /\ run_pc = "setup"
    /\ spots' = setup_spots_db(spots, SPOT_TO_OLD, now)
    /\ run_pc' = "start_1"
    /\ UNCHANGED << now, lock, cfg_vars, rbn_vars, show_vars, vfo_vars,
                    pure_vars >>

\* thread_1 started at the top of run(), before the status page is fetched.
run_start_1_BeforeFetch ==
    /\ run_pc = "fetch"
    /\ rbn_pc = "idle"
    /\ rbn_pc' = "read"
    /\ UNCHANGED << now, spots, lock, run_pc, cfg_vars, stream, spot, tn_sent,
                    show_vars, vfo_vars, pure_vars >>

\* run(): thread_1.start()
run_start_1 ==
    /\ run_pc = "start_1"
    /\ rbn_pc' = "read"
    /\ run_pc' = "start_2"
    /\ UNCHANGED << now, spots, lock, cfg_vars, stream, spot, tn_sent,
                    show_vars, vfo_vars, pure_vars >>

\* run(): thread_2.start()
run_start_2 ==
    /\ run_pc = "start_2"
    /\ show_pc' = "top"
    /\ run_pc' = "start_3"
    /\ UNCHANGED << now, spots, lock, cfg_vars, rbn_vars, result, idx,
                    displayed, rows, pruned, style, CONTACTLIST,
                    vfo_vars, pure_vars >>

\* run(): thread_3.start(), then the joins
run_start_3 ==
    /\ run_pc = "start_3"
    /\ vfo_pc' = "poll"
    /\ run_pc' = "join"
    /\ UNCHANGED << now, spots, lock, cfg_vars, rbn_vars, show_vars, THE_VFO,
                    pure_vars >>

-----------------------------------------------------------------------------
(* Ingest: thread getrbn *)

\* The body of the loop without the test "spotter in localspotters".
getrbn_entry_AnySpotter(chunk, spotters, show_out_of_band, limit_bands) ==
    IF chunk.kind = "empty" THEN "continue"
    ELSE IF chunk.challenge THEN "write"
    ELSE IF chunk.kind # "spot" THEN "continue"
    ELSE IF ~(chunk.mode = "CW") THEN "continue"
    ELSE IF chunk.freq = BadFreq THEN "raise"
    ELSE IF ~inband(chunk.freq) /\ show_out_of_band = FALSE THEN "continue"
    ELSE IF getband(chunk.freq) \in limit_bands THEN "add_spot"
    ELSE "continue"

\* The body of the loop with the test for the login prompt made after the
\* line was parsed and filtered, so that a spot line that holds the prompt
\* is treated as a spot.
getrbn_entry_ParsesFirst(chunk, spotters, show_out_of_band, limit_bands) ==
    IF chunk.kind = "empty" THEN "continue"
    ELSE IF chunk.kind = "spot" /\ chunk.mode = "CW"
            /\ chunk.spotter \in spotters /\ chunk.freq # BadFreq
            /\ (inband(chunk.freq) \/ show_out_of_band)
            /\ getband(chunk.freq) \in limit_bands
         THEN "add_spot"
    ELSE IF chunk.challenge THEN "write"
    ELSE "continue"

\* What the body of the loop does with one chunk: "continue" (back to
\* read_until), "write" (answer the login prompt), "raise" (float() raises
\* ValueError, uncaught: the thread ends) or "add_spot".
getrbn_entry(chunk, spotters, show_out_of_band, limit_bands) ==
    IF chunk.kind = "empty" THEN "continue"
    ELSE IF chunk.challenge THEN "write"
    ELSE IF chunk.kind # "spot" THEN "continue"
    ELSE IF ~(chunk.mode = "CW") THEN "continue"
    ELSE IF ~(chunk.spotter \in spotters) THEN "continue"
    ELSE IF chunk.freq = BadFreq THEN "raise"
    ELSE IF ~inband(chunk.freq) /\ show_out_of_band = FALSE THEN "continue"
    ELSE IF getband(chunk.freq) \in limit_bands THEN "add_spot"
    ELSE "continue"

\* stream = tn_connection.read_until(b"\r\n", timeout=1.0)
getrbn_read(chunks) ==
    /\ rbn_pc = "read"
    /\ \E chunk \in chunks : stream' = chunk
    /\ tn_sent' = << >>
    /\ rbn_pc' = "parse"
    /\ UNCHANGED << now, spots, lock, run_pc, cfg_vars, spot, show_vars,
                    vfo_vars, pure_vars >>

\* The body of the loop up to "with the_lock:".
getrbn_parse ==
    /\ rbn_pc = "parse"
    /\ LET todo == getrbn_entry(stream, localspotters, SHOW_OUT_OF_BAND,
                                LIMIT_BANDS)
       IN  /\ rbn_pc' = CASE todo = "continue" -> "read"
                          [] todo = "write" -> "write"
                          [] todo = "raise" -> "dead"
                          [] todo = "add_spot" -> "lock"
           /\ spot' = IF todo = "add_spot"
                      THEN << stream.callsign, stream.freq,
                              getband(stream.freq) >>
                      ELSE << >>
           /\ stream' = IF todo = "continue" THEN NoChunk ELSE stream
    /\ UNCHANGED << now, spots, lock, run_pc, cfg_vars, tn_sent, show_vars,
                    vfo_vars, pure_vars >>

\* tn_connection.write(f"{MY_CALL}\r\n".encode("ascii")); continue
getrbn_write ==
    /\ rbn_pc = "write"
    /\ rbn_pc' = "read"
    /\ stream' = NoChunk
    /\ tn_sent' = Append(tn_sent, << MY_CALL, "\r\n" >>)
    /\ UNCHANGED << now, spots, lock, run_pc, cfg_vars, spot, show_vars,
                    vfo_vars, pure_vars >>

\* A lock that never blocks, as if each thread had made its own Lock().
CanAcquire_NeverBlocks(the_lock) == TRUE

\* Lock.acquire(): blocks until the lock is free.
CanAcquire(the_lock) == the_lock = "free"

\* "with the_lock:" entered, line 426
getrbn_acquire ==
    /\ rbn_pc = "lock"
    /\ CanAcquire(lock)
    /\ lock' = "getrbn"
    /\ rbn_pc' = "add_spot"
    /\ UNCHANGED << now, spots, run_pc, cfg_vars, stream, spot, tn_sent,
                    show_vars, vfo_vars, pure_vars >>

\* DataBase.add_spot(callsign, freq, band, SPOT_TO_OLD), "with" left
getrbn_add_spot ==
    /\ rbn_pc = "add_spot"
    /\ spots' = add_spot(spots, spot[1], spot[2], spot[3], SPOT_TO_OLD, now)
    /\ lock' = "free"
    /\ rbn_pc' = "read"
    /\ stream' = NoChunk
    /\ spot' = << >>
    /\ UNCHANGED << now, run_pc, cfg_vars, tn_sent, show_vars, vfo_vars,
                    pure_vars >>

\* The number of rows a call of add_spot adds to those it does not delete:
\* 1 if the "insert" branch runs, 0 if the "update" branch runs.
Inserts(tbl, callsign, spot_to_old, t) ==
    IF CountCallsign(Sweep(tbl, t, spot_to_old), callsign) = 0 THEN 1 ELSE 0

\* The same step with the history of the inserts kept.
getrbn_add_spot_counted ==
    /\ rbn_pc = "add_spot"
    /\ spots' = add_spot(spots, spot[1], spot[2], spot[3], SPOT_TO_OLD, now)
    /\ lock' = "free"
    /\ rbn_pc' = "read"
    /\ stream' = NoChunk
    /\ spot' = << >>
    /\ inserted' = inserted + Inserts(spots, spot[1], SPOT_TO_OLD, now)
    /\ UNCHANGED << now, run_pc, cfg_vars, tn_sent, show_vars, vfo_vars,
                    call, ret >>

-----------------------------------------------------------------------------
(* Render: thread showspots *)

\* The top of the loop as if it also set THE_VFO back to 0.0.
showspots_top_ResetsVfo(logs) ==
    /\ show_pc \in {"top", "sleep"}
    /\ updatecontactlist(logs)
    /\ rows' = << >>
    /\ result' = << >>
    /\ idx' = 0
    /\ displayed' = 0
    /\ pruned' = 0
    /\ show_pc' = "lock_getspots"
    /\ THE_VFO' = 0
    /\ UNCHANGED << now, spots, lock, run_pc, cfg_vars, rbn_vars, style,
                    vfo_pc, pure_vars >>

\* Top of the loop (after time.sleep(1) from the second pass on):
\* updatecontactlist(), console.clear(), console.rule().
showspots_top(logs) ==
    /\ show_pc \in {"top", "sleep"}
    /\ updatecontactlist(logs)
    /\ rows' = << >>
    /\ result' = << >>
    /\ idx' = 0
    /\ displayed' = 0
    /\ pruned' = 0
    /\ show_pc' = "lock_getspots"
    /\ UNCHANGED << now, spots, lock, run_pc, cfg_vars, rbn_vars, style,
                    vfo_vars, pure_vars >>

\* "with the_lock:" entered, line 363
showspots_acquire_getspots ==
    /\ show_pc = "lock_getspots"
    /\ CanAcquire(lock)
    /\ lock' = "showspots"
    /\ show_pc' = "getspots"
    /\ UNCHANGED << now, spots, run_pc, cfg_vars, rbn_vars, result, idx,
                    displayed, rows, pruned, style, CONTACTLIST,
                    vfo_vars, pure_vars >>

\* result = DataBase.getspots(), "with" left; displayed = 2
showspots_getspots ==
    /\ show_pc = "getspots"
    /\ result' \in getspots(spots)
    /\ lock' = "free"
    /\ displayed' = 2
    /\ idx' = 0
    /\ show_pc' = "loop"
    /\ inserted' = 0
    /\ UNCHANGED << now, spots, run_pc, cfg_vars, rbn_vars, rows, pruned,
                    style, CONTACTLIST, vfo_vars, call, ret >>

\* The test that lets one row more than fits through to console.print.
Overflows_OneRowLate(n, height) == n > height + 1

\* "displayed > console.height"
Overflows(n, height) == n > height

\* One iteration of "for spot in result" that prints the row, lines 366 to
\* 378: style = "", then the test against 0.8 kHz.  comparevfo reads the
\* global THE_VFO at each of its three calls, and thread getvfo can assign
\* it between them.
showspots_style_1 ==
    /\ show_pc = "loop"
    /\ idx < Len(result)
    /\ ~Overflows(displayed + 1, console_height)
    /\ displayed' = displayed + 1
    /\ idx' = idx + 1
    /\ style' = style_test("", result[idx + 1].frequency, THE_VFO, 800,
                           "bold on color(237)")
    /\ show_pc' = "style_2"
    /\ UNCHANGED << now, spots, lock, run_pc, cfg_vars, rbn_vars, result,
                    rows, pruned, CONTACTLIST, vfo_vars, pure_vars >>

\* Lines 379 and 380: the test against 0.5 kHz.
showspots_style_2 ==
    /\ show_pc = "style_2"
    /\ style' = style_test(style, result[idx].frequency, THE_VFO, 500,
                           "bold on color(240)")
    /\ show_pc' = "style_3"
    /\ UNCHANGED << now, spots, lock, run_pc, cfg_vars, rbn_vars, result,
                    idx, displayed, rows, pruned, CONTACTLIST, vfo_vars,
                    pure_vars >>

\* Lines 381 to 392: the test against 0.2 kHz, alreadyworked() and
\* console.print().
showspots_print ==
    /\ show_pc = "style_3"
    /\ LET r == result[idx]
           s3 == style_test(style, r.frequency, THE_VFO, 200, "bold on blue")
       IN  rows' = Append(rows,
                [callsign |-> r.callsign, frequency |-> r.frequency,
                 band |-> r.band,
                 style |-> style_worked(s3, r.callsign, r.band, CONTACTLIST)])
    /\ style' = ""
    /\ show_pc' = "loop"
    /\ UNCHANGED << now, spots, lock, run_pc, cfg_vars, rbn_vars, result,
                    idx, displayed, pruned, CONTACTLIST, vfo_vars,
                    pure_vars >>

\* One iteration of "for spot in result" past the console's height, up to
\* "with the_lock:" of line 370.
showspots_overflow ==
    /\ show_pc = "loop"
    /\ idx < Len(result)
    /\ Overflows(displayed + 1, console_height)
    /\ displayed' = displayed + 1
    /\ idx' = idx + 1
    /\ show_pc' = "lock_prune"
    /\ UNCHANGED << now, spots, lock, run_pc, cfg_vars, rbn_vars, result,
                    rows, pruned, style, CONTACTLIST, vfo_vars, pure_vars >>

\* "with the_lock:" entered, line 370
showspots_acquire_prune ==
    /\ show_pc = "lock_prune"
    /\ CanAcquire(lock)
    /\ lock' = "showspots"
    /\ show_pc' = "prune"
    /\ UNCHANGED << now, spots, run_pc, cfg_vars, rbn_vars, result, idx,
                    displayed, rows, pruned, style, CONTACTLIST,
                    vfo_vars, pure_vars >>

\* DataBase.prune_oldest_spot(), "with" left
showspots_prune ==
    /\ show_pc = "prune"
    /\ spots # EmptyBag
    /\ \E row \in OldestRows(spots) : spots' = prune_oldest_spot(spots, row)
    /\ pruned' = pruned + 1
    /\ lock' = "free"
    /\ show_pc' = "loop"
    /\ UNCHANGED << now, run_pc, cfg_vars, rbn_vars, result, idx, displayed,
                    rows, style, CONTACTLIST, vfo_vars, pure_vars >>

\* The same failure with the lock taken by acquire() and given back by a
\* release() that the exception skips.
showspots_prune_raises_KeepsLock ==
    /\ show_pc = "prune"
    /\ spots = EmptyBag
    /\ pruned' = pruned + 1
    /\ show_pc' = "dead"
    /\ UNCHANGED << now, spots, lock, run_pc, cfg_vars, rbn_vars, result, idx,
                    displayed, rows, style, CONTACTLIST, vfo_vars, pure_vars >>

\* DataBase.prune_oldest_spot() on an empty table: fetchone() is None, the
\* unpacking raises TypeError, "with" releases the lock and the thread ends.
showspots_prune_raises ==
    /\ show_pc = "prune"
    /\ spots = EmptyBag
    /\ pruned' = pruned + 1
    /\ lock' = "free"
    /\ show_pc' = "dead"
    /\ UNCHANGED << now, spots, run_pc, cfg_vars, rbn_vars, result, idx,
                    displayed, rows, style, CONTACTLIST, vfo_vars,
                    pure_vars >>

\* The for loop is exhausted: time.sleep(1)
showspots_sleep ==
    /\ show_pc = "loop"
    /\ idx = Len(result)
    /\ show_pc' = "sleep"
    /\ UNCHANGED << now, spots, lock, run_pc, cfg_vars, rbn_vars, result, idx,
                    displayed, rows, pruned, style, CONTACTLIST,
                    vfo_vars, pure_vars >>

-----------------------------------------------------------------------------
(* FrequencyPoll: thread getvfo *)

\* The except clauses of getvfo: the exceptions that set THE_VFO to 0.0.
getvfo_caught == {"ValueError", "TypeError"}

\* THE_VFO = float(server.rig.get_vfo()) / 1000, or 0.0 from an except
\* clause; then time.sleep(0.25)
getvfo_poll(replies) ==
    /\ vfo_pc = "poll"
    /\ \E reply \in replies :
          \/ reply.kind = "value" /\ THE_VFO' = reply.hz
          \/ reply.kind \in getvfo_caught /\ THE_VFO' = 0
    /\ vfo_pc' = "sleep"
    /\ UNCHANGED << now, spots, lock, run_pc, cfg_vars, rbn_vars, show_vars,
                    pure_vars >>

\* server.rig.get_vfo() raises an exception no except clause names
\* (ConnectionRefusedError, xmlrpc.client.Fault, ProtocolError): the thread
\* ends.
getvfo_poll_raises(replies) ==
    /\ vfo_pc = "poll"
    /\ \E reply \in replies :
          reply.kind \notin {"value"} \cup getvfo_caught
    /\ vfo_pc' = "dead"
    /\ UNCHANGED << now, spots, lock, run_pc, cfg_vars, rbn_vars, show_vars,
                    THE_VFO, pure_vars >>

\* time.sleep(0.25) returns
getvfo_sleep ==
    /\ vfo_pc = "sleep"
    /\ vfo_pc' = "poll"
    /\ UNCHANGED << now, spots, lock, run_pc, cfg_vars, rbn_vars, show_vars,
                    THE_VFO, pure_vars >>

-----------------------------------------------------------------------------
(* The program *)

LeftOver == { EmptyBag, SetToBag({Row("N0CALL", 0, 140100, "20")}) }

Init == InitWith(LeftOver, {TRUE}, {DefaultBands}, {2, 3})

InitStore == InitWith(LeftOver, {TRUE}, {DefaultBands}, {2, 3})

Next ==
    \/ Tick
    \/ run_fetch_fails(ContactLogs)
    \/ run_fetch(ContactLogs, StatusPages)
    \/ run_setup
    \/ run_start_1
    \/ run_start_2
    \/ run_start_3
    \/ getrbn_read(FewChunks)
    \/ getrbn_parse
    \/ getrbn_write
    \/ getrbn_acquire
    \/ getrbn_add_spot
    \/ showspots_top(ContactLogs)
    \/ showspots_acquire_getspots
    \/ showspots_getspots
    \/ showspots_style_1
    \/ showspots_style_2
    \/ showspots_print
    \/ showspots_overflow
    \/ showspots_acquire_prune
    \/ showspots_prune
    \/ showspots_prune_raises
    \/ showspots_sleep
    \/ getvfo_poll(RigReplies)
    \/ getvfo_poll_raises(RigReplies)
    \/ getvfo_sleep

Spec == Init /\ [][Next]_vars

\* Ingest and Render alone, the log of contacts being the same at each
\* reading.
OneLog == { {<< "40", "N0CALL" >>} }

NextStore ==
    \/ Tick
    \/ run_fetch(OneLog, StatusPages)
    \/ run_setup
    \/ run_start_1
    \/ run_start_2
    \/ run_start_3
    \/ getrbn_read(StoreChunks)
    \/ getrbn_parse
    \/ getrbn_write
    \/ getrbn_acquire
    \/ getrbn_add_spot
    \/ showspots_top(OneLog)
    \/ showspots_acquire_getspots
    \/ showspots_getspots
    \/ showspots_style_1
    \/ showspots_style_2
    \/ showspots_print
    \/ showspots_overflow
    \/ showspots_acquire_prune
    \/ showspots_prune
    \/ showspots_prune_raises
    \/ showspots_sleep

SpecStore == InitStore /\ [][NextStore]_vars

\* Ingest and Render again, with the history of the inserts kept.
NextBound ==
    \/ Tick
    \/ run_fetch(OneLog, StatusPages)
    \/ run_setup
    \/ run_start_1
    \/ run_start_2
    \/ run_start_3
    \/ getrbn_read(StoreChunks)
    \/ getrbn_parse
    \/ getrbn_write
    \/ getrbn_acquire
    \/ getrbn_add_spot_counted
    \/ showspots_top(OneLog)
    \/ showspots_acquire_getspots
    \/ showspots_getspots
    \/ showspots_style_1
    \/ showspots_style_2
    \/ showspots_print
    \/ showspots_overflow
    \/ showspots_acquire_prune
    \/ showspots_prune
    \/ showspots_prune_raises
    \/ showspots_sleep

SpecBound == InitStore /\ [][NextBound]_vars

\* Ingest alone, on every line of the bounded feed and under every
\* setting of --general and --bands.
InitIngest == InitWith(LeftOver, BOOLEAN, {DefaultBands, ArgsBands}, {3})

NextIngest ==
    \/ Tick
    \/ run_fetch(OneLog, StatusPages)
    \/ run_setup
    \/ run_start_1
    \/ run_start_2
    \/ run_start_3
    \/ getrbn_read(AllChunks)
    \/ getrbn_parse
    \/ getrbn_write
    \/ getrbn_acquire
    \/ getrbn_add_spot

SpecIngest == InitIngest /\ [][NextIngest]_vars

\* The program under fair scheduling.  A thread that holds the lock is not
\* suspended for ever, so the table operation it is in ends and the "with"
\* block gives the lock back (weak fairness).  threading.Lock keeps no
\* order among its waiters, but a thread that has given the lock back
\* blocks in time.sleep(1) or in read_until() before it asks again, the
\* prunes of a pass being finitely many: a waiter that finds the lock free
\* again and again does get it (strong fairness).
LiveChunks ==
    {ChallengeChunk, SpotChunk("S1", 70300, "N0CALL", "CW"),
     SpotChunk("S1", 140100, "W1AW", "CW")}

LiveReplies == {[kind |-> "value", hz |-> 7030000]}

InitLive == InitWith(LeftOver, {TRUE}, {DefaultBands}, {2, 3})

NextLive ==
    \/ Tick
    \/ run_fetch(OneLog, StatusPages)
    \/ run_setup
    \/ run_start_1
    \/ run_start_2
    \/ run_start_3
    \/ getrbn_read(LiveChunks)
    \/ getrbn_parse
    \/ getrbn_write
    \/ getrbn_acquire
    \/ getrbn_add_spot
    \/ showspots_top(OneLog)
    \/ showspots_acquire_getspots
    \/ showspots_getspots
    \/ showspots_style_1
    \/ showspots_style_2
    \/ showspots_print
    \/ showspots_overflow
    \/ showspots_acquire_prune
    \/ showspots_prune
    \/ showspots_prune_raises
    \/ showspots_sleep
    \/ getvfo_poll(LiveReplies)
    \/ getvfo_sleep

Fairness ==
    /\ WF_vars(getrbn_add_spot)
    /\ WF_vars(showspots_getspots)
    /\ WF_vars(showspots_prune \/ showspots_prune_raises)
    /\ SF_vars(getrbn_acquire)
    /\ SF_vars(showspots_acquire_getspots)
    /\ SF_vars(showspots_acquire_prune)

SpecLive == InitLive /\ [][NextLive]_vars /\ Fairness

\* The classifiers applied on their own.  The frequencies tried: every
\* tenth of a kHz within 1.2 kHz of an edge of getband's table.
BandEdgesKHz ==
    {1800, 2000, 3500, 4000, 5330, 5406, 7000, 7300, 10100, 10150, 14000,
     14350, 18068, 18168, 21000, 21450, 24890, 24990, 28000, 29700, 50000,
     54000, 144000, 148000}

BandProbe == UNION { (e * 10 - 12) .. (e * 10 + 12) : e \in BandEdgesKHz }

call_getband ==
    /\ \E freq \in BandProbe :
          /\ call' = << "getband", freq >>
          /\ ret' = getband(freq)
    /\ UNCHANGED << now, spots, lock, run_pc, cfg_vars, rbn_vars, show_vars,
                    vfo_vars, inserted >>

\* The characters of the grid codes tried: "D", "M" and "1", as ord()
\* gives them.
GridChars == {68, 77, 49}

\* The codes tried: the prefixes of the codes of MaxGrid characters that
\* keep to the pattern letter letter digit digit.
GridCodes ==
    UNION { {g \in [1 .. n -> GridChars] :
               \A i \in 1 .. n : (g[i] >= 65) <=> ((i - 1) % 4 < 2)} :
            n \in 0 .. MaxGrid }

call_gridtolatlon ==
    /\ \E maiden \in GridCodes :
          /\ call' = << "gridtolatlon", maiden >>
          /\ ret' = gridtolatlon(maiden)
    /\ UNCHANGED << now, spots, lock, run_pc, cfg_vars, rbn_vars, show_vars,
                    vfo_vars, inserted >>

InitPure == InitWith({EmptyBag}, {TRUE}, {DefaultBands}, {3})

NextPure ==
    \/ call_getband
    \/ call_gridtolatlon

SpecPure == InitPure /\ [][NextPure]_vars

-----------------------------------------------------------------------------
(* Properties *)

CallsignsIn(tbl) == {r.callsign : r \in BagToSet(tbl)}

\* C1: in every reachable state of the program, with the three loops
\* interleaved in any way, the table holds at most one row per callsign.
C1_OneRowPerCallsign ==
    \A c \in CallsignsIn(spots) : CountCallsign(spots, c) = 1

\* C1 witness: N0CALL was listed on 7030.0, the listed row has not expired
\* and no row was pruned since, and the table now holds N0CALL on 14010.0
\* beside another station: an upsert met N0CALL's row and updated it.
C1_Witness ==
    /\ show_pc = "sleep"
    /\ pruned = 0
    /\ \E i \in 1 .. Len(result) :
          /\ result[i].callsign = "N0CALL"
          /\ result[i].frequency = 70300
          /\ Age(result[i], now) <= SPOT_TO_OLD
    /\ \E r \in BagToSet(spots) : r.callsign = "N0CALL" /\ r.frequency = 140100
    /\ BagCardinality(spots) = 2

\* C6: once the loops run, a table operation is in progress only in the
\* thread that holds the lock, so add_spot never overlaps getspots or
\* prune_oldest_spot.
C6_StoreOpsSerialized ==
    /\ rbn_pc = "add_spot" => lock = "getrbn"
    /\ show_pc \in {"getspots", "prune"} => lock = "showspots"
    /\ ~(rbn_pc = "add_spot" /\ show_pc \in {"getspots", "prune"})

\* C6 witness: getrbn is inside add_spot while showspots waits for the lock
\* to prune.
C6_Witness ==
    /\ rbn_pc = "add_spot"
    /\ show_pc = "lock_prune"
    /\ lock = "getrbn"

-----------------------------------------------------------------------------
(* Properties of the table operations, in the runs of Ingest and Render *)

\* The step of getrbn that runs DataBase.add_spot
IsAddSpot == rbn_pc = "add_spot" /\ rbn_pc' = "read"

Fresh(row, t) == Age(row, t) <= SPOT_TO_OLD

\* C2: an upsert for a callsign whose row is in the table and has not
\* expired (the callsign's second upsert) leaves exactly one row for the
\* callsign, with the frequency and band of this call and the time of this
\* call; and every upsert leaves the unexpired rows of the other callsigns
\* as they were.
C2_SecondUpsertOverwrites ==
    [][IsAddSpot =>
         LET c == spot[1]
             new == Row(c, now, spot[2], spot[3])
         IN  /\ (\E r \in BagToSet(spots) : r.callsign = c /\ Fresh(r, now))
                  => /\ CountCallsign(spots', c) = 1
                     /\ CopiesIn(new, spots') = 1
             /\ \A r \in BagToSet(spots) :
                   r.callsign # c /\ Fresh(r, now)
                     => CopiesIn(r, spots') = CopiesIn(r, spots)
             /\ BagToSet(spots') \subseteq BagToSet(spots) \cup {new}
      ]_vars

\* C2 witness: N0CALL was listed on 7030.0 in band 40 beside W1AW; no row
\* has been pruned yet and no row can have expired yet, so the upsert that
\* put N0CALL on 14010.0 in band 20 was its second; W1AW's row is as listed.
C2_Witness ==
    /\ show_pc = "lock_prune"
    /\ pruned = 0
    /\ now <= SPOT_TO_OLD
    /\ \E i, j \in 1 .. Len(result) :
          /\ result[i].callsign = "N0CALL"
          /\ result[i].frequency = 70300
          /\ result[i].band = "40"
          /\ result[j].callsign = "W1AW"
          /\ CopiesIn(result[j], spots) = 1
          /\ CopiesIn(Row("N0CALL", now, 140100, "20"), spots) = 1
          /\ now > result[i].date_time
    /\ BagCardinality(spots) = 2

\* The rows of a listing, as a bag
RECURSIVE SeqToBag(_)
SeqToBag(seq) ==
    IF seq = << >> THEN EmptyBag
    ELSE SetToBag({Head(seq)}) (+) SeqToBag(Tail(seq))

\* The step of showspots that runs DataBase.getspots
IsGetSpots == show_pc = "getspots" /\ show_pc' = "loop"

\* C3: an upsert removes every row whose age exceeds the TTL, whatever its
\* callsign; a row enters the table only by an upsert of its callsign,
\* stamped with the time of that upsert; and a listing holds the rows of
\* the table and no others.  So a row that had expired when an upsert ran
\* is in no later listing unless its callsign was upserted again.
C3_SweepOnUpsert ==
    [][/\ IsAddSpot =>
            \A r \in BagToSet(spots) :
               Age(r, now) > SPOT_TO_OLD => ~(r \in BagToSet(spots'))
       /\ \A r \in BagToSet(spots') :
             CopiesIn(r, spots') > CopiesIn(r, spots)
               => IsAddSpot /\ r = Row(spot[1], now, spot[2], spot[3])
       /\ IsGetSpots => SeqToBag(result') = spots
      ]_vars

\* C3 witness: W1AW was listed, no row was pruned since, W1AW's listed row
\* has expired and the table, which is not empty, holds no row of W1AW: an
\* upsert of another callsign swept it.
C3_Witness ==
    /\ show_pc = "sleep"
    /\ pruned = 0
    /\ \E i \in 1 .. Len(result) :
          /\ result[i].callsign = "W1AW"
          /\ Age(result[i], now) > SPOT_TO_OLD
    /\ ~("W1AW" \in CallsignsIn(spots))
    /\ spots # EmptyBag

\* The step of showspots that runs DataBase.prune_oldest_spot
IsPrune == show_pc = "prune" /\ show_pc' # "prune"

\* C4: prune_oldest_spot on a table that is not empty removes exactly one
\* row, a row of the smallest date_time of the table, and leaves the other
\* rows as they are.
C4_EvictsOldest ==
    [][IsPrune /\ spots # EmptyBag =>
         \E r \in BagToSet(spots) :
            /\ \A q \in BagToSet(spots) : r.date_time <= q.date_time
            /\ spots' = spots (-) SetToBag({r})
            /\ BagCardinality(spots') = BagCardinality(spots) - 1
      ]_vars

\* C4 witness: one row was pruned in this pass, no row can have expired,
\* and the pruned row is the one that was printed, the first of the
\* listing, while the row that did not fit is still in the table and is in
\* another band.
C4_Witness ==
    /\ show_pc = "loop"
    /\ pruned = 1
    /\ now <= SPOT_TO_OLD
    /\ Len(result) = 2
    /\ Len(rows) = 1
    /\ CopiesIn(result[1], spots) = 0
    /\ CopiesIn(result[2], spots) = 1
    /\ result[1].band # result[2].band
    /\ BagCardinality(spots) = 1

-----------------------------------------------------------------------------
(* Properties of the render pass *)

Smaller(a, b) == IF a < b THEN a ELSE b
Larger(a, b) == IF a > b THEN a ELSE b

\* C5: when a render pass has ended, having listed n rows on a console
\* with room for k = console.height - 2, it has printed min(n, k) rows, the
\* first of the listing, and has called prune_oldest_spot max(0, n - k)
\* times.
C5_PassPrintsAndPrunes ==
    show_pc \in {"sleep", "dead"} =>
       LET n == Len(result)
           k == console_height - 2
       IN  /\ Len(rows) = Smaller(n, k)
           /\ \A i \in 1 .. Len(rows) :
                 /\ rows[i].callsign = result[i].callsign
                 /\ rows[i].frequency = result[i].frequency
                 /\ rows[i].band = result[i].band
           /\ pruned = Larger(0, n - k)

\* The highlight chosen by priority from one value of the tuned frequency:
\* already worked, else in passband (0.2 kHz), else near (0.5 kHz), else
\* nearby (0.8 kHz), else the default.
Tier(callsign, frequency, band, vfo, contactlist) ==
    IF << band, callsign >> \in contactlist THEN "bold on color(88)"
    ELSE IF comparevfo(frequency, vfo) < 200 THEN "bold on blue"
    ELSE IF comparevfo(frequency, vfo) < 500 THEN "bold on color(240)"
    ELSE IF comparevfo(frequency, vfo) < 800 THEN "bold on color(237)"
    ELSE ""

\* The values THE_VFO takes: 0.0 and the frequencies the rig reports.
VfoValues == {0} \cup {reply.hz : reply \in RigReplies}

\* C12: every row on the screen has the highlight that the priority order
\* gives for its callsign, frequency and band, the contacts of this pass
\* and a value of the tuned frequency.
C12_TierByPriority ==
    \A i \in 1 .. Len(rows) :
       rows[i].style \in
          {Tier(rows[i].callsign, rows[i].frequency, rows[i].band, v,
                CONTACTLIST) : v \in VfoValues}

-----------------------------------------------------------------------------
(* Properties of Ingest *)

\* C7: no feed line ends the Ingest loop.
C7_IngestNeverEnds == rbn_pc # "dead"

\* The step of getrbn that handles the chunk it has read
IsParse == rbn_pc = "parse" /\ rbn_pc' # "parse"

\* The four acceptance filters of a matched line
PassesFilters(chunk) ==
    /\ chunk.mode = "CW"
    /\ chunk.spotter \in localspotters
    /\ inband(chunk.freq) \/ SHOW_OUT_OF_BAND
    /\ getband(chunk.freq) \in LIMIT_BANDS

\* What C9 says of the lines in the set lines: such a line goes on to
\* add_spot with (callsign, frequency, getband(frequency)) exactly if it
\* passes the four filters, the add_spot puts that row in the table, and
\* nothing else changes the table once the threads run.
UpsertIffFilters(lines) ==
    /\ IsParse /\ stream \in lines =>
          /\ (rbn_pc' = "lock") <=> PassesFilters(stream)
          /\ rbn_pc' = "lock" =>
                spot' = << stream.callsign, stream.freq, getband(stream.freq) >>
          /\ spots' = spots
    /\ IsAddSpot /\ stream \in lines =>
          CopiesIn(Row(stream.callsign, now, stream.freq,
                       getband(stream.freq)), spots') = 1
    /\ spots' # spots /\ run_pc # "setup" =>
          IsAddSpot /\ PassesFilters(stream)

C11_LowerEdgeAccepted ==
    [][/\ IsParse
       /\ stream.kind = "spot"
       /\ ~stream.challenge
       /\ stream.mode = "CW"
       /\ stream.spotter \in localspotters
       /\ stream.freq = 140250
       /\ "20" \in LIMIT_BANDS
       => /\ getband(stream.freq) = "20"
          /\ inband(stream.freq)
          /\ rbn_pc' = "lock"
          /\ spot' = << stream.callsign, stream.freq, "20" >>
      ]_vars

\* The step of getrbn that runs tn_connection.write
IsWrite == rbn_pc = "write" /\ rbn_pc' # "write"

\* C14: a chunk that holds the login prompt is answered by one write of
\* MY_CALL and "\r\n", after which the loop reads the next chunk, and no
\* step taken for the chunk touches the table; nothing is written to the
\* connection except in answer to such a chunk.
C14_AnswersChallengeOnce ==
    [][/\ IsParse /\ stream.challenge =>
             /\ rbn_pc' = "write"
             /\ tn_sent' = << >>
             /\ spots' = spots
       /\ IsWrite =>
             /\ stream.challenge
             /\ tn_sent = << >>
             /\ tn_sent' = << << MY_CALL, "\r\n" >> >>
             /\ rbn_pc' = "read"
             /\ spots' = spots
       /\ tn_sent' # tn_sent /\ tn_sent' # << >> =>
             IsWrite /\ stream.challenge
      ]_vars

\* C14 witness: a chunk that holds the login prompt has just been answered,
\* after an earlier line has put a row in the table; the table has no row
\* stamped with this second.
C14_Witness ==
    /\ rbn_pc = "read"
    /\ tn_sent = << << MY_CALL, "\r\n" >> >>
    /\ spots # EmptyBag
    /\ \A r \in BagToSet(spots) : r.date_time < now

-----------------------------------------------------------------------------
(* Properties of FrequencyPoll *)

\* C8: the FrequencyPoll loop never ends.
C8_PollNeverEnds == vfo_pc # "dead"

-----------------------------------------------------------------------------
(* Properties of the classifiers *)

\* The table of getband read as ranges lo <= f < hi, in kHz.
BandTable ==
    { << 1800, 2000, "160" >>, << 3500, 4000, "80" >>,
      << 5330, 5406, "60" >>, << 7000, 7300, "40" >>,
      << 10100, 10150, "30" >>, << 14000, 14350, "20" >>,
      << 18068, 18168, "17" >>, << 21000, 21450, "15" >>,
      << 24890, 24990, "12" >>, << 28000, 29700, "10" >>,
      << 50000, 54000, "6" >>, << 144000, 148000, "2" >> }

\* The ranges of BandTable that hold the frequency f (tenths of a kHz)
RangesOf(f) == {e \in BandTable : e[1] * 10 <= f /\ f < e[2] * 10}

\* C10: getband gives a frequency in a range [lo, hi) the label of the
\* range, and a frequency in no range the label "0".
C10_InclusiveOpenRanges ==
    call # << >> /\ call[1] = "getband" =>
       /\ \A e \in RangesOf(call[2]) : ret = e[3]
       /\ RangesOf(call[2]) = {} => ret = "0"

-----------------------------------------------------------------------------
(* Properties of gridtolatlon *)

\* C13: gridtolatlon returns (0, 0), and does not raise, for every code
\* whose length is odd or outside 2..8, and returns the decoded pair for a
\* code of 2, 4, 6 or 8 characters.
C13_MalformedGridIsZero ==
    call # << >> /\ call[1] = "gridtolatlon" =>
       LET n == Len(call[2])
       IN  /\ n \notin {2, 4, 6, 8} =>
                 ret.kind = "return" /\ ret.value = << 0, 0 >>
           /\ n \in {2, 4, 6, 8} => ret.kind = "return"

-----------------------------------------------------------------------------
(* Properties of run() *)

\* No thread has been started
NoLoop(rbn, show, vfo) == rbn = "idle" /\ show = "idle" /\ vfo = "idle"

\* C15: localspotters is assigned, and setup_spots_db runs, only while no
\* thread has been started; a thread is started only after both are done;
\* after a failed fetch of the status page no thread is ever started.
C15_StartupBeforeLoops ==
    [][/\ (\/ localspotters' # localspotters
           \/ (spots' # spots /\ run_pc = "setup"))
          => (/\ run_pc \in {"fetch", "setup"}
              /\ NoLoop(rbn_pc, show_pc, vfo_pc)
              /\ NoLoop(rbn_pc', show_pc', vfo_pc'))
       /\ (run_pc \in {"fetch", "setup", "aborted"})
          => (/\ NoLoop(rbn_pc, show_pc, vfo_pc)
              /\ NoLoop(rbn_pc', show_pc', vfo_pc'))
       /\ (run_pc = "aborted") => (run_pc' = "aborted")
      ]_vars

\* C15 witness: the three threads run, getrbn is about to upsert a spot of
\* S1, the one spotter in range, and the table is still empty.
C15_Witness ==
    /\ run_pc = "join"
    /\ localspotters = {"S1"}
    /\ rbn_pc = "lock"
    /\ show_pc = "lock_getspots"
    /\ vfo_pc = "sleep"
    /\ spots = EmptyBag
    /\ now = MaxTime

-----------------------------------------------------------------------------
(* Frame properties of the threads *)

\* C16: THE_VFO changes only in a step of getvfo, which leaves the
\* variables of getrbn and showspots alone; and no step of getvfo changes
\* the table or CONTACTLIST.
C16_VfoWrittenByPollOnly ==
    [][/\ (THE_VFO' # THE_VFO)
          => (/\ vfo_pc = "poll"
              /\ vfo_pc' = "sleep"
              /\ rbn_vars' = rbn_vars
              /\ show_vars' = show_vars)
       /\ (vfo_pc # "idle" /\ vfo_pc' # vfo_pc)
          => (spots' = spots /\ CONTACTLIST' = CONTACTLIST)
      ]_vars

\* C16 witness: getvfo has set THE_VFO to 7030.0 kHz, showspots has read it
\* to print a row in the passband style, getrbn has put a second row in
\* the table and CONTACTLIST holds a contact.
C16_Witness ==
    /\ THE_VFO = 7030000
    /\ vfo_pc = "sleep"
    /\ Len(rows) = 1
    /\ rows[1].style = "bold on blue"
    /\ BagCardinality(spots) = 2
    /\ CONTACTLIST # {}

-----------------------------------------------------------------------------
(* Properties of Render and Ingest interleaved *)

\* C17: whenever showspots is about to run prune_oldest_spot the table
\* holds a row, and thread showspots never ends.
C17_EvictionNeverFails ==
    /\ show_pc = "prune" => spots # EmptyBag
    /\ show_pc # "dead"

\* C18: when a render pass ends (the for loop is exhausted), the table
\* holds at most k = console.height - 2 rows more than add_spot has
\* inserted since the pass listed the table: at most k rows when no upsert
\* came in between.
C18_StoreBoundedByCapacity ==
    show_pc = "loop" /\ idx = Len(result) =>
       BagCardinality(spots) <= (console_height - 2) + inserted

\* C18 witness: on a console with room for one row a pass has listed two
\* rows, printed one and pruned one, add_spot has inserted a row meanwhile,
\* and the pass ends with two rows in the table.
C18_Witness ==
    /\ show_pc = "loop"
    /\ idx = Len(result)
    /\ console_height = 3
    /\ Len(result) = 2
    /\ pruned = 1
    /\ inserted = 1
    /\ BagCardinality(spots) = 2

-----------------------------------------------------------------------------
(* Properties of the lock *)

\* The lock is held only by a thread that is inside a table operation.
LockHeldInsideOperation ==
    /\ lock = "getrbn" <=> rbn_pc = "add_spot"
    /\ lock = "showspots" <=> show_pc \in {"getspots", "prune"}

\* C19: the lock is held only inside a table operation, so not while a
\* thread waits for a feed line or sleeps, nor after an operation has
\* raised; a held lock is given back; and under fair scheduling a thread
\* that asks for the lock gets it: a spot that passed the filters is put in
\* the table, showspots gets its listing and its prune is run.
C19_LockIsReleasedAndAcquired ==
    /\ []LockHeldInsideOperation
    /\ (lock # "free") ~> (lock = "free")
    /\ \A c \in Callsigns :
          (rbn_pc = "lock" /\ spot[1] = c)
             ~> (rbn_pc = "read" /\ c \in CallsignsIn(spots))
    /\ (show_pc = "lock_getspots") ~> (show_pc = "loop")
    /\ (show_pc = "lock_prune") ~> (show_pc \in {"loop", "dead"})

\* C19 witness: getrbn waits for the lock with a spot that passed the
\* filters while showspots holds it for a prune on the empty table, which
\* will raise, and getvfo sleeps.
C19_Witness ==
    /\ rbn_pc = "lock"
    /\ lock = "showspots"
    /\ show_pc = "prune"
    /\ spots = EmptyBag
    /\ vfo_pc = "sleep"

====
